---- MODULE Spec2Model ----
(***************************************************************************)
(* Model of the consume loop of the trace archiver,                        *)
(* src/trace-archiver-hdf5/src/control.rs, fn run and fn generate_filename.*)
(*                                                                         *)
(* One iteration of the loop is two steps: Process (recv, the branch on    *)
(* the payload, the sink call and the counters, lines 70-158) and Commit   *)
(* (line 160).  A crash of the process can fall between the two, which is  *)
(* what a redelivery after restart is made of (SpecCrash).                 *)
(*                                                                         *)
(* The sink (crate::file::TraceFile) replies Ok or Err to create and to    *)
(* push; both replies are inputs.  commit_message is taken to return Ok    *)
(* (line 160 unwraps it; the bus client is outside this model).  Offsets   *)
(* are numbered along the stream in the order of first delivery.           *)
(***************************************************************************)
EXTENDS Integers, Sequences, FiniteSets, TLC

\* ------------------------------------------------------------ bounds
\* Messages delivered to one run of the loop.
MaxMsgs == 4
\* Crashes followed by a restart (SpecCrash only).
MaxRestarts == 1

\* ------------------------------------------------------------ inputs
\* control_args.control_topic and common_args.trace_topic (lines 60-63).
ControlTopic == "control"
TraceTopic == "trace"
Topics == {ControlTopic, TraceTopic}

Partitions == {0, 1}

\* Stand-in for the largest instant chrono's DateTime<Utc> represents: every
\* millisecond count beyond it makes from_timestamp_millis return None.
DateTimeMaxMillis == 3000

\* rdkafka::Timestamp: NotAvailable | CreateTime(i64) (LogAppendTime(i64)
\* converts exactly as CreateTime does).
NotAvailable == [kind |-> "NotAvailable", ms |-> 0]
CreateTime(t) == [kind |-> "CreateTime", ms |-> t]
Timestamps ==
  {NotAvailable, CreateTime(-1), CreateTime(1000), CreateTime(2000),
   CreateTime(DateTimeMaxMillis + 1)}

\* msg.payload(): None, or bytes with a flatbuffers file identifier.  A buffer
\* carries one identifier; wellformed says whether the body verifies.
NoPayload == [some |-> FALSE, ident |-> "none", wellformed |-> FALSE]
Bytes(id, wf) == [some |-> TRUE, ident |-> id, wellformed |-> wf]
Payloads ==
  {NoPayload, Bytes("trace", TRUE), Bytes("trace", FALSE),
   Bytes("runstart", TRUE), Bytes("runstop", TRUE), Bytes("other", TRUE)}

\* The envelopes the bus can deliver at offset o.  The timestamp is read by
\* the run-start branch alone (line 126), so only run-start payloads vary it.
Envelopes(o) ==
  {[topic |-> t, partition |-> p, offset |-> o, timestamp |-> ts, payload |-> pl] :
     t \in Topics, p \in Partitions, ts \in Timestamps, pl \in Payloads}
Messages(o) ==
  {m \in Envelopes(o) :
     m.payload.ident # "runstart" => m.timestamp = CreateTime(1000)}

\* ------------------------------------------------------------ state
VARIABLES
  pc,        \* "recv": at line 70; "commit": at line 160; "exited": run returned
  file,      \* the local `file: Option<TraceFile>` (line 67)
  msg,       \* the message of the current iteration (line 72)
  sink,      \* every TraceFile::create call so far, with the pushes to it
  counters,  \* the metrics counters, by label
  position,  \* offset of the next message the bus delivers
  commits,   \* commits[o]: how many times offset o was committed
  redeliver, \* the message the bus delivers again after a restart
  hist,      \* messages processed by this run of the loop, in receive order
  last,      \* the step taken last
  owner,     \* partition of the message that opened the session, -1 if none
  restarts   \* crashes so far

vars == <<pc, file, msg, sink, counters, position, commits, redeliver, hist,
          last, owner, restarts>>

NoFile == [some |-> FALSE, filename |-> <<>>, handle |-> 0]
SomeFile(name, h) == [some |-> TRUE, filename |-> name, handle |-> h]

NoMsg == [some |-> FALSE]
SomeMsg(m) == [some |-> TRUE, val |-> m]

ZeroCounters ==
  [msgTrace |-> 0, msgUnknown |-> 0, failDecode |-> 0, failWrite |-> 0]

Init ==
  /\ pc = "recv"
  /\ file = NoFile
  /\ msg = NoMsg
  /\ sink = <<>>
  /\ counters = ZeroCounters
  /\ position = 0
  /\ commits = [o \in 0..MaxMsgs |-> 0]
  /\ redeliver = NoMsg
  /\ hist = <<>>
  /\ last = "init"
  /\ owner = -1
  /\ restarts = 0

\* ------------------------------------------------------------ pure functions
None == [some |-> FALSE]
Some(v) == [some |-> TRUE, val |-> v]

\* rdkafka Timestamp::to_millis, as called at line 168: no value for
\* NotAvailable and for the broker's "unset" mark -1.
to_millis(ts) ==
  IF ts.kind = "NotAvailable" \/ ts.ms = -1 THEN None ELSE Some(ts.ms)

\* chrono DateTime::<Utc>::from_timestamp_millis, as called at line 169: no
\* value outside the representable range.
from_timestamp_millis(ms) ==
  IF ms >= -DateTimeMaxMillis /\ ms <= DateTimeMaxMillis THEN Some(ms) ELSE None

\* format!("{:?}.h5", timestamp) (line 170): the instant printed to the
\* millisecond, then the extension.
FormatH5(instant) == <<instant, "h5">>

\* generate_filename taking a missing timestamp for the epoch.
generate_filename_DefaultsToEpoch(timestamp) ==
  LET millis == to_millis(timestamp) IN
    LET instant == from_timestamp_millis(IF millis.some THEN millis.val ELSE 0) IN
      IF instant.some
        THEN [ok |-> TRUE, path |-> FormatH5(instant.val)]
        ELSE [ok |-> FALSE, path |-> <<>>]

\* fn generate_filename (lines 166-176).
generate_filename(timestamp) ==
  LET millis == to_millis(timestamp) IN
    IF millis.some
      THEN LET instant == from_timestamp_millis(millis.val) IN
             IF instant.some
               THEN [ok |-> TRUE, path |-> FormatH5(instant.val)]
               ELSE [ok |-> FALSE, path |-> <<>>]
      ELSE [ok |-> FALSE, path |-> <<>>]

\* The generated *_buffer_has_identifier functions (lines 83, 122, 142).
digitizer_analog_trace_message_buffer_has_identifier(payload) ==
  payload.ident = "trace"
run_start_buffer_has_identifier(payload) == payload.ident = "runstart"
run_stop_buffer_has_identifier(payload) == payload.ident = "runstop"

\* root_as_digitizer_analog_trace_message (line 85): Ok iff the body verifies.
root_as_digitizer_analog_trace_message(payload) == payload.wellformed

\* Classify with the topic compared before the trace identifier is looked at.
Classify_TopicFirst(topic, payload) ==
  IF ~payload.some THEN "NoPayload"
  ELSE IF topic = ControlTopic
    THEN IF run_start_buffer_has_identifier(payload) THEN "RunStart"
         ELSE IF run_stop_buffer_has_identifier(payload) THEN "RunStop"
         ELSE "Unrecognized"
  ELSE IF digitizer_analog_trace_message_buffer_has_identifier(payload)
    THEN IF root_as_digitizer_analog_trace_message(payload)
           THEN "TraceFrame" ELSE "DecodeFailed"
  ELSE "Unexpected"

\* The branch of lines 82-158 a message takes.
Classify(topic, payload) ==
  IF ~payload.some THEN "NoPayload"
  ELSE IF digitizer_analog_trace_message_buffer_has_identifier(payload)
    THEN IF root_as_digitizer_analog_trace_message(payload)
           THEN "TraceFrame" ELSE "DecodeFailed"
  ELSE IF topic = ControlTopic
    THEN IF run_start_buffer_has_identifier(payload) THEN "RunStart"
         ELSE IF run_stop_buffer_has_identifier(payload) THEN "RunStop"
         ELSE "Unrecognized"
  ELSE "Unexpected"

\* ------------------------------------------------------------ the sink
\* TraceFile::create(&filename, digitizer_count) with reply r (line 127).
\* `by` is the message whose handling made the call.
TraceFile_create(name, by, r) ==
  Append(sink, [name |-> name, ok |-> r, live |-> r, by |-> by, pushes |-> <<>>])

\* file.push(&data) on handle h with reply r (line 100).
TraceFile_push(h, o, r) ==
  [sink EXCEPT ![h].pushes = Append(@, [offset |-> o, ok |-> r])]

\* Dropping the TraceFile a handle stands for (the old value of `file` at
\* line 145, or every local when the process ends).
TraceFile_drop(s, h) ==
  IF h \in DOMAIN s THEN [s EXCEPT ![h].live = FALSE] ELSE s

Increment(c, label) == [c EXCEPT ![label] = @ + 1]

\* ------------------------------------------------------------ the branches
\* OnTraceFrame with a failed push tried a second time.
OnTraceFrame_RetryOnError(m, r) ==
  /\ pc' = "commit"
  /\ file' = file
  /\ IF file.some
       THEN /\ sink' =
                 IF r THEN TraceFile_push(file.handle, m.offset, r)
                 ELSE [sink EXCEPT ![file.handle].pushes =
                         Append(Append(@, [offset |-> m.offset, ok |-> r]),
                                [offset |-> m.offset, ok |-> r])]
            /\ counters' =
                 IF r THEN Increment(counters, "msgTrace")
                 ELSE Increment(Increment(counters, "msgTrace"), "failWrite")
       ELSE /\ sink' = sink
            /\ counters' = Increment(counters, "msgTrace")

\* OnTraceFrame giving the session up when a push fails.
OnTraceFrame_ClosesOnError(m, r) ==
  /\ pc' = "commit"
  /\ IF file.some
       THEN /\ sink' =
                 IF r THEN TraceFile_push(file.handle, m.offset, r)
                 ELSE TraceFile_drop(TraceFile_push(file.handle, m.offset, r),
                                     file.handle)
            /\ file' = IF r THEN file ELSE NoFile
            /\ counters' =
                 IF r THEN Increment(counters, "msgTrace")
                 ELSE Increment(Increment(counters, "msgTrace"), "failWrite")
       ELSE /\ sink' = sink
            /\ file' = file
            /\ counters' = Increment(counters, "msgTrace")

\* OnTraceFrame counting a frame that finds no session as a failed write.
OnTraceFrame_DropIsFailure(m, r) ==
  /\ pc' = "commit"
  /\ file' = file
  /\ IF file.some
       THEN /\ sink' = TraceFile_push(file.handle, m.offset, r)
            /\ counters' =
                 IF r THEN Increment(counters, "msgTrace")
                 ELSE Increment(Increment(counters, "msgTrace"), "failWrite")
       ELSE /\ sink' = sink
            /\ counters' =
                 Increment(Increment(counters, "msgTrace"), "failWrite")

\* OnTraceFrame counting the message only once a session takes it.
OnTraceFrame_CountsOnlyForwarded(m, r) ==
  /\ pc' = "commit"
  /\ file' = file
  /\ IF file.some
       THEN /\ sink' = TraceFile_push(file.handle, m.offset, r)
            /\ counters' =
                 IF r THEN Increment(counters, "msgTrace")
                 ELSE Increment(Increment(counters, "msgTrace"), "failWrite")
       ELSE /\ sink' = sink
            /\ counters' = counters

\* Lines 86-109: a decoded trace message.
OnTraceFrame(m, r) ==
  /\ pc' = "commit"
  /\ file' = file
  /\ IF file.some
       THEN /\ sink' = TraceFile_push(file.handle, m.offset, r)
            /\ counters' =
                 IF r THEN Increment(counters, "msgTrace")
                 ELSE Increment(Increment(counters, "msgTrace"), "failWrite")
       ELSE /\ sink' = sink
            /\ counters' = Increment(counters, "msgTrace")

\* OnDecodeFailed treating the bad message as the end of the run.
OnDecodeFailed_ClosesSession(m) ==
  /\ pc' = "commit"
  /\ file' = NoFile
  /\ sink' = TraceFile_drop(sink, file.handle)
  /\ counters' = Increment(counters, "failDecode")

\* Lines 111-118: the trace identifier on a body that does not verify.
OnDecodeFailed(m) ==
  /\ pc' = "commit"
  /\ file' = file
  /\ sink' = sink
  /\ counters' = Increment(counters, "failDecode")

\* OnRunStart without the file.is_none() test of line 125.
OnRunStart_NoIsNoneCheck(m, r) ==
  LET filename == generate_filename(m.timestamp) IN
    IF filename.ok
      THEN /\ sink' = TraceFile_create(filename.path, m.offset, r)
           /\ counters' = counters
           /\ IF r
                THEN /\ file' = SomeFile(filename.path, Len(sink) + 1)
                     /\ pc' = "commit"
                ELSE /\ file' = NoFile
                     /\ pc' = "exited"
      ELSE /\ sink' = sink
           /\ file' = file
           /\ counters' = Increment(counters, "failWrite")
           /\ pc' = "commit"

\* Lines 122-141: run start on the control topic.  The `?` of line 130
\* returns the sink's error from run: the loop ends there, before line 160.
OnRunStart(m, r) ==
  IF ~file.some
    THEN LET filename == generate_filename(m.timestamp) IN
      IF filename.ok
        THEN /\ sink' = TraceFile_create(filename.path, m.offset, r)
             /\ counters' = counters
             /\ IF r
                  THEN /\ file' = SomeFile(filename.path, Len(sink) + 1)
                       /\ pc' = "commit"
                  ELSE /\ file' = NoFile
                       /\ pc' = "exited"
        ELSE /\ sink' = sink
             /\ file' = file
             /\ counters' = Increment(counters, "failWrite")
             /\ pc' = "commit"
    ELSE /\ sink' = sink
         /\ file' = file
         /\ counters' = counters
         /\ pc' = "commit"

\* OnRunStop without the assignment of line 145.
OnRunStop_KeepsSession(m) ==
  /\ pc' = "commit"
  /\ file' = file
  /\ sink' = sink
  /\ counters' = counters

\* OnRunStop reporting a stop that finds no session as a failure.
OnRunStop_StrayStopIsFailure(m) ==
  /\ pc' = "commit"
  /\ file' = NoFile
  /\ sink' = TraceFile_drop(sink, file.handle)
  /\ counters' = IF file.some THEN counters ELSE Increment(counters, "failWrite")

\* Lines 142-145: run stop on the control topic.
OnRunStop(m) ==
  /\ pc' = "commit"
  /\ file' = NoFile
  /\ sink' = TraceFile_drop(sink, file.handle)
  /\ counters' = counters

\* Lines 146-148: another identifier on the control topic (a warning only).
OnUnrecognized(m) ==
  /\ pc' = "commit"
  /\ file' = file
  /\ sink' = sink
  /\ counters' = counters

\* OnUnexpected reporting the message as one that failed to decode.
OnUnexpected_IsDecodeFailure(m) ==
  /\ pc' = "commit"
  /\ file' = file
  /\ sink' = sink
  /\ counters' = Increment(counters, "failDecode")

\* Lines 149-157: no trace identifier, not the control topic.
OnUnexpected(m) ==
  /\ pc' = "commit"
  /\ file' = file
  /\ sink' = sink
  /\ counters' = Increment(counters, "msgUnknown")

\* OnNoPayload counting the empty message as an unknown one.
OnNoPayload_CountsUnknown(m) ==
  /\ pc' = "commit"
  /\ file' = file
  /\ sink' = sink
  /\ counters' = Increment(counters, "msgUnknown")

\* Line 82 without a payload: nothing between recv and commit.
OnNoPayload(m) ==
  /\ pc' = "commit"
  /\ file' = file
  /\ sink' = sink
  /\ counters' = counters

\* What a step did to the sink, read off the sink before and after.
SinkCall(before, after) ==
  IF Len(after) > Len(before) THEN "create"
  ELSE IF \E h \in DOMAIN before : Len(after[h].pushes) > Len(before[h].pushes)
    THEN "push"
  ELSE "none"

SinkReply(before, after) ==
  IF Len(after) > Len(before) THEN after[Len(after)].ok
  ELSE IF \E h \in DOMAIN before : Len(after[h].pushes) > Len(before[h].pushes)
    THEN LET h == CHOOSE x \in DOMAIN before :
                    Len(after[x].pushes) > Len(before[x].pushes)
         IN after[h].pushes[Len(after[h].pushes)].ok
  ELSE TRUE

\* ------------------------------------------------------------ the loop
\* Lines 70-158 for Ok(msg): m is the message received, r the sink's reply
\* should the branch call the sink.
Process(m, r) ==
  /\ pc = "recv"
  /\ position < MaxMsgs
  /\ m.offset = position
  /\ redeliver.some => m = redeliver.val
  /\ LET kind == Classify(m.topic, m.payload) IN
       /\ CASE kind = "TraceFrame" -> OnTraceFrame(m, r)
            [] kind = "DecodeFailed" -> OnDecodeFailed(m)
            [] kind = "RunStart" -> OnRunStart(m, r)
            [] kind = "RunStop" -> OnRunStop(m)
            [] kind = "Unrecognized" -> OnUnrecognized(m)
            [] kind = "Unexpected" -> OnUnexpected(m)
            [] kind = "NoPayload" -> OnNoPayload(m)
       /\ hist' = Append(hist, [offset |-> m.offset, kind |-> kind,
                                 call |-> SinkCall(sink, sink'),
                                 ok |-> SinkReply(sink, sink')])
  /\ msg' = SomeMsg(m)
  /\ position' = position + 1
  /\ redeliver' = NoMsg
  /\ owner' = IF ~file'.some THEN -1
              ELSE IF file.some THEN owner ELSE m.partition
  /\ last' = "process"
  /\ UNCHANGED <<commits, restarts>>

\* Line 160: consumer.commit_message(&msg, CommitMode::Async), end of the
\* iteration.
Commit ==
  /\ pc = "commit"
  /\ commits' = [commits EXCEPT ![msg.val.offset] = @ + 1]
  /\ msg' = NoMsg
  /\ pc' = "recv"
  /\ last' = "commit"
  /\ UNCHANGED <<file, sink, counters, position, redeliver, hist, owner,
                 restarts>>

\* RecvError with the error returned from run (recv().await?).
RecvError_Returns ==
  /\ pc = "recv"
  /\ pc' = "exited"
  /\ file' = NoFile
  /\ sink' = TraceFile_drop(sink, file.handle)
  /\ owner' = -1
  /\ last' = "recvError"
  /\ UNCHANGED <<msg, counters, position, commits, redeliver, hist, restarts>>

\* Line 71: recv returned Err; a warning, and the loop goes round.
RecvError ==
  /\ pc = "recv"
  /\ last' = "recvError"
  /\ UNCHANGED <<pc, file, msg, sink, counters, position, commits, redeliver,
                 hist, owner, restarts>>

\* The process dies and is started again: every local and every counter is
\* gone (lines 43-67 run anew), the artifacts stay, and the consumer group
\* resumes at the last committed offset, so a message processed but not yet
\* committed is delivered again.
DropAll(s) == [h \in DOMAIN s |-> [s[h] EXCEPT !.live = FALSE]]

CrashRestart ==
  /\ pc \in {"recv", "commit"}
  /\ restarts < MaxRestarts
  /\ restarts' = restarts + 1
  /\ pc' = "recv"
  /\ file' = NoFile
  /\ sink' = DropAll(sink)
  /\ counters' = ZeroCounters
  /\ hist' = <<>>
  /\ msg' = NoMsg
  /\ IF pc = "commit"
       THEN /\ redeliver' = msg
            /\ position' = msg.val.offset
       ELSE /\ redeliver' = redeliver
            /\ position' = position
  /\ owner' = -1
  /\ last' = "restart"
  /\ UNCHANGED commits

Next ==
  \/ \E m \in Messages(position), r \in BOOLEAN : Process(m, r)
  \/ Commit
  \/ RecvError

Spec == Init /\ [][Next]_vars

NextCrash ==
  \/ Next
  \/ CrashRestart

SpecCrash == Init /\ [][NextCrash]_vars

\* ------------------------------------------------------------ vocabulary
\* The entry of the message processed last.
LastEntry == hist[Len(hist)]

\* The step just taken processed a message that took branch k.
Processed(k) == last = "process" /\ Len(hist) > 0 /\ LastEntry.kind = k

\* This step processes a message that takes branch k.
ProcessStep(k) == Len(hist') = Len(hist) + 1 /\ hist'[Len(hist')].kind = k

\* A RunStart that opened a session: the name was derived and the sink
\* created the artifact.
IsOpening(e) == e.kind = "RunStart" /\ e.call = "create" /\ e.ok

NoStopBetween(j, i) == \A k \in (j + 1)..(i - 1) : hist[k].kind # "RunStop"

\* The entry of the RunStart that opened the session in force when entry i
\* was received, 0 if no session was.
Opener(i) ==
  LET cands == {j \in 1..(i - 1) : IsOpening(hist[j]) /\ NoStopBetween(j, i)}
  IN IF cands = {} THEN 0 ELSE CHOOSE j \in cands : \A j2 \in cands : j2 <= j

\* Every push call the sink has seen for the message at offset o.
PushesOf(o) ==
  {hn \in UNION {{<<h, n>> : n \in DOMAIN sink[h].pushes} : h \in DOMAIN sink} :
     sink[hn[1]].pushes[hn[2]].offset = o}

\* The artifact created by the message at offset o.
ArtifactsBy(o) == {h \in DOMAIN sink : sink[h].by = o}

LiveHandles == {h \in DOMAIN sink : sink[h].live}

Failures(c) == <<c.failDecode, c.failWrite>>

\* ------------------------------------------------------------ C1
AtMostOneSession ==
  /\ Cardinality(LiveHandles) <= 1
  /\ LiveHandles = IF file.some THEN {file.handle} ELSE {}

RunStartWhileOpenIsNoOp ==
  (ProcessStep("RunStart") /\ file.some) => (sink' = sink /\ file' = file)

\* C1: in every reachable state at most one run session (one live TraceFile)
\* exists, and it is the one `file` holds; a RunStart processed while a
\* session is open makes no sink call and leaves the session (its artifact
\* name and its handle) as it was.
C1_OneSessionRunStartIdempotent ==
  []AtMostOneSession /\ [][RunStartWhileOpenIsNoOp]_vars

\* A RunStart has just been ignored because a session was open.
C1_Witness ==
  /\ Processed("RunStart")
  /\ LastEntry.call = "none"
  /\ file.some
  /\ Len(sink) = 1

\* ------------------------------------------------------------ C2
FrameGated(i) ==
  LET o == hist[i].offset IN
    IF Opener(i) = 0
      THEN PushesOf(o) = {}
      ELSE /\ Cardinality(PushesOf(o)) = 1
           /\ \A hn \in PushesOf(o) :
                hn[1] \in ArtifactsBy(hist[Opener(i)].offset)

PushesAreFrames ==
  \A h \in DOMAIN sink : \A n \in DOMAIN sink[h].pushes :
    /\ \E i \in DOMAIN hist :
         hist[i].kind = "TraceFrame" /\ hist[i].offset = sink[h].pushes[n].offset
    /\ \A n2 \in DOMAIN sink[h].pushes :
         n2 < n => sink[h].pushes[n2].offset < sink[h].pushes[n].offset

StartFramesStop(n) ==
  /\ Len(hist) = n + 2
  /\ IsOpening(hist[1])
  /\ \A i \in 2..(n + 1) : hist[i].kind = "TraceFrame"
  /\ hist[n + 2].kind = "RunStop"

\* C2: a trace frame is handed to the sink's append (once) exactly when it was
\* received after a RunStart that opened a session and before the next
\* RunStop, and then to the artifact of that session; the sink is handed
\* nothing else, and in receive order.  RunStart, n trace frames, RunStop
\* leaves one artifact created and n appends to it.
C2_FramesGatedByRun ==
  /\ \A i \in DOMAIN hist : hist[i].kind = "TraceFrame" => FrameGated(i)
  /\ PushesAreFrames
  /\ \A n \in 0..MaxMsgs :
       StartFramesStop(n) => (Len(sink) = 1 /\ Len(sink[1].pushes) = n)

\* RunStart, two frames and RunStop have been processed and committed.
C2_Witness ==
  /\ Len(hist) >= 4
  /\ IsOpening(hist[1])
  /\ hist[2].kind = "TraceFrame"
  /\ hist[3].kind = "TraceFrame"
  /\ hist[4].kind = "RunStop"
  /\ Len(sink) = 1
  /\ Len(sink[1].pushes) = 2
  /\ pc = "recv"

\* ------------------------------------------------------------ C3
StartSinceStop(pred(_)) ==
  \E j \in DOMAIN hist :
    /\ pred(hist[j])
    /\ \A k \in (j + 1)..Len(hist) : hist[k].kind # "RunStop"

IsRunStart(e) == e.kind = "RunStart"

OneSessionPerRun ==
  \A j, k \in DOMAIN hist :
    (j < k /\ IsOpening(hist[j]) /\ IsOpening(hist[k]))
      => \E s \in (j + 1)..(k - 1) : hist[s].kind = "RunStop"

\* C3 as claimed: the session is open iff a RunStart was received since the
\* most recent RunStop (or since the start).
C3_Original == file.some <=> StartSinceStop(IsRunStart)

\* C3 as amended: the session is open iff, since the most recent RunStop (or
\* since the start), a RunStart was received for which the artifact name was
\* derived and the sink created the artifact; two such RunStarts always have
\* a RunStop between them.
C3_OpenIffOpeningStartSinceStop ==
  /\ file.some <=> StartSinceStop(IsOpening)
  /\ OneSessionPerRun

\* A RunStart without a usable timestamp, one that opens, one that is ignored.
C3_Witness ==
  /\ Len(hist) = 3
  /\ \A i \in 1..3 : hist[i].kind = "RunStart"
  /\ hist[1].call = "none"
  /\ IsOpening(hist[2])
  /\ hist[3].call = "none"
  /\ file.some

\* ------------------------------------------------------------ C4
CreateFailedStep ==
  /\ ProcessStep("RunStart")
  /\ hist'[Len(hist')].call = "create"
  /\ ~hist'[Len(hist')].ok

\* C4: when the sink's create fails for a RunStart received with no session
\* open, a failure counter is incremented, no session is open, and the loop
\* goes on to commit the message and to the messages after it.
C4_CreateFailureReported ==
  [][CreateFailedStep =>
       /\ counters'.failWrite = counters.failWrite + 1
       /\ ~file'.some
       /\ pc' = "commit"]_vars

\* ------------------------------------------------------------ C5
PushFailed(e) == e.kind = "TraceFrame" /\ e.call = "push" /\ ~e.ok

PushFailedStep == ProcessStep("TraceFrame") /\ PushFailed(hist'[Len(hist')])

SessionSurvivesPushFailure ==
  PushFailedStep =>
    /\ counters'.failWrite = counters.failWrite + 1
    /\ file.some
    /\ file' = file
    /\ pc' = "commit"

LaterFramesSameSession ==
  \A i, j \in DOMAIN hist :
    (i < j /\ PushFailed(hist[i]) /\ hist[j].kind = "TraceFrame"
       /\ NoStopBetween(i, j))
      => /\ PushesOf(hist[j].offset) # {}
         /\ \A a \in PushesOf(hist[i].offset), b \in PushesOf(hist[j].offset) :
              a[1] = b[1]

\* C5: when the sink's append fails, the file-write failure counter goes up
\* by one, the session stays open and unchanged, the loop goes on, and every
\* later trace frame before the next RunStop is handed to the same session.
C5_AppendFailureTolerated ==
  [][SessionSurvivesPushFailure]_vars /\ []LaterFramesSameSession

\* An append failed, and the next frame went to the same artifact.
C5_Witness ==
  /\ Len(hist) >= 3
  /\ PushFailed(hist[2])
  /\ hist[3].kind = "TraceFrame"
  /\ hist[3].call = "push"
  /\ Len(sink) = 1
  /\ Len(sink[1].pushes) = 2
  /\ counters.failWrite = 1
  /\ file.some

\* ------------------------------------------------------------ C6
\* C6: every message received is committed exactly once, after its branch
\* has run and whatever that branch did or failed to do, and before the next
\* message is processed: outside an iteration every message received so far
\* has one commit, inside one all but the current have.
C6_CommittedOnceAfterAction ==
  \A i \in DOMAIN hist :
    commits[hist[i].offset] = IF pc = "commit" /\ i = Len(hist) THEN 0 ELSE 1

\* ------------------------------------------------------------ C7
\* The first message after a restart is the RunStart delivered before it,
\* for which an artifact exists.
RedeliveredRunStart ==
  /\ restarts > 0
  /\ Processed("RunStart")
  /\ Len(hist) = 1
  /\ \E h \in ArtifactsBy(hist[1].offset) : sink[h].ok /\ ~sink[h].live

\* C7: a RunStart delivered twice, the second time after a crash and a
\* restart from the last committed offset, has at most one create call made
\* for it, and the second delivery reports no failure.
C7_RedeliveryCreatesOnce ==
  /\ \A h1, h2 \in DOMAIN sink : sink[h1].by = sink[h2].by => h1 = h2
  /\ RedeliveredRunStart => (pc # "exited" /\ counters.failWrite = 0)

\* ------------------------------------------------------------ C8
FrameWithoutSessionDropped ==
  (ProcessStep("TraceFrame") /\ ~file.some) =>
    /\ sink' = sink
    /\ file' = file
    /\ Failures(counters') = Failures(counters)
    /\ pc' = "commit"

\* C8: a decoded trace frame received while no session is open makes no sink
\* call, leaves the state at no session and increments no failure counter.
C8_FrameWithoutSessionDropped == [][FrameWithoutSessionDropped]_vars

\* A frame has just been dropped after a run was closed.
C8_Witness ==
  /\ Processed("TraceFrame")
  /\ LastEntry.call = "none"
  /\ ~file.some
  /\ Len(sink) = 1
  /\ counters.msgTrace = 1

\* ------------------------------------------------------------ C9
RunStopCloses ==
  ProcessStep("RunStop") =>
    /\ ~file'.some
    /\ LiveHandles' = {}
    /\ pc' = "commit"
    /\ ~file.some => (sink' = sink /\ counters' = counters /\ file' = file)

RunStopTwiceIsOnce ==
  (ProcessStep("RunStop") /\ Len(hist) > 0 /\ LastEntry.kind = "RunStop") =>
    (file' = file /\ sink' = sink /\ counters' = counters)

\* C9: a RunStop always leaves no session; with no session open it makes no
\* sink call and increments no counter, so a second RunStop right after a
\* first changes nothing.
C9_RunStopIdempotent == [][RunStopCloses /\ RunStopTwiceIsOnce]_vars

\* A RunStop closed a session, and a second one has just been processed.
C9_Witness ==
  /\ Len(hist) >= 3
  /\ IsOpening(hist[Len(hist) - 2])
  /\ hist[Len(hist) - 1].kind = "RunStop"
  /\ Processed("RunStop")
  /\ ~file.some
  /\ Len(sink) = 1

\* ------------------------------------------------------------ C10
DecodeFailureCounted ==
  ProcessStep("DecodeFailed") =>
    /\ counters' = Increment(counters, "failDecode")
    /\ sink' = sink
    /\ file' = file
    /\ pc' = "commit"

\* The loop has ended only where the source ends it: at the `?` of line 130.
ExitOnlyOnCreateFailure ==
  pc = "exited" =>
    (Len(hist) > 0 /\ LastEntry.kind = "RunStart" /\ LastEntry.call = "create"
       /\ ~LastEntry.ok)

\* C10: a payload with the trace identifier that does not decode increments
\* the decode-failure counter by one and no other, makes no sink call, opens
\* and closes no session, and the loop goes on to the commit and to the next
\* message.
C10_DecodeFailureCounted ==
  [][DecodeFailureCounted]_vars /\ []ExitOnlyOnCreateFailure

\* A decode failure inside an open run, and the frame after it still pushed.
C10_Witness ==
  /\ Len(hist) >= 3
  /\ IsOpening(hist[1])
  /\ hist[2].kind = "DecodeFailed"
  /\ hist[3].kind = "TraceFrame"
  /\ hist[3].call = "push"
  /\ counters.failDecode = 1
  /\ file.some

\* ------------------------------------------------------------ C11
\* C11: a payload on the control topic whose identifier is neither trace,
\* run start nor run stop increments the unknown-message counter, does not
\* increment the decode-failure counter and leaves the session as it was.
C11_UnrecognizedCounted ==
  [][ProcessStep("Unrecognized") =>
       /\ counters'.msgUnknown = counters.msgUnknown + 1
       /\ counters'.failDecode = counters.failDecode
       /\ file' = file]_vars

\* ------------------------------------------------------------ C12
\* The timestamp is absent or names no calendar instant.
Unconvertible(ts) ==
  \/ ts.kind = "NotAvailable"
  \/ ts.ms = -1
  \/ ts.ms > DateTimeMaxMillis
  \/ ts.ms < -DateTimeMaxMillis

NameFailureReported ==
  (ProcessStep("RunStart") /\ ~file.some /\ Unconvertible(msg'.val.timestamp))
    => /\ sink' = sink
       /\ counters' = Increment(counters, "failWrite")
       /\ ~file'.some
       /\ pc' = "commit"

ValidStartCreates ==
  (ProcessStep("RunStart") /\ ~file.some /\ ~Unconvertible(msg'.val.timestamp))
    => /\ Len(sink') = Len(sink) + 1
       /\ sink'[Len(sink')].name = FormatH5(msg'.val.timestamp.ms)
       /\ sink'[Len(sink')].ok =>
            (file'.some /\ file'.handle = Len(sink')
               /\ file'.filename = FormatH5(msg'.val.timestamp.ms))

\* C12: a RunStart received with no session open whose timestamp is absent or
\* converts to no calendar instant makes no create call, increments a failure
\* counter (file-write) by one, leaves no session open and the loop running;
\* a later RunStart with a valid timestamp calls create with the name of its
\* timestamp and, the sink replying Ok, opens the session.
C12_NameFailureThenValidStart ==
  [][NameFailureReported /\ ValidStartCreates]_vars

\* A RunStart without a usable timestamp, then one that opened a session.
C12_Witness ==
  /\ Len(hist) = 2
  /\ hist[1].kind = "RunStart"
  /\ hist[1].call = "none"
  /\ IsOpening(hist[2])
  /\ file.some
  /\ counters.failWrite = 1
  /\ Len(sink) = 1

\* ------------------------------------------------------------ C13
Total(c) == c.msgTrace + c.msgUnknown + c.failDecode + c.failWrite

ProcessWithPayloadStep ==
  Len(hist') = Len(hist) + 1 /\ hist'[Len(hist')].kind # "NoPayload"

\* C13: every branch taken by a message with a payload (RunStart accepted or
\* ignored, RunStop, TraceFrame forwarded or dropped, Unrecognized,
\* Unexpected, DecodeFailed) reports exactly one metric event: the counters
\* go up by one in all.
C13_OneMetricPerMessage ==
  [][ProcessWithPayloadStep => Total(counters') = Total(counters) + 1]_vars

\* ------------------------------------------------------------ C14
OneAttemptPerFrame ==
  \A i \in DOMAIN hist :
    hist[i].kind = "TraceFrame" => Cardinality(PushesOf(hist[i].offset)) <= 1

FrameStepPushesOnce ==
  ProcessStep("TraceFrame") =>
    /\ Len(sink') = Len(sink)
    /\ \A h \in DOMAIN sink :
         /\ Len(sink'[h].pushes) <= Len(sink[h].pushes) + 1
         /\ Len(sink'[h].pushes) > Len(sink[h].pushes) =>
              sink'[h].pushes[Len(sink'[h].pushes)].offset = position
    /\ position' = position + 1
    /\ redeliver' = NoMsg
    /\ pc' = "commit"

\* Only the message being processed is ever handed to the sink.
NoLatePush ==
  Len(hist') = Len(hist) + 1 =>
    \A h \in DOMAIN sink : \A n \in DOMAIN sink'[h].pushes :
      n > Len(sink[h].pushes) => sink'[h].pushes[n].offset = position

\* C14: for each trace message received the sink's append is attempted at
\* most once: a failed append is not tried again, the frame is neither kept
\* nor queued again, and the loop moves on to the next message.
C14_AtMostOneAppendAttempt ==
  []OneAttemptPerFrame /\ [][FrameStepPushesOnce /\ NoLatePush]_vars

\* An append failed, another frame was processed after it, and the artifact
\* holds one attempt for each.
C14_Witness ==
  /\ Len(hist) = 4
  /\ IsOpening(hist[1])
  /\ PushFailed(hist[2])
  /\ hist[3].kind = "TraceFrame"
  /\ hist[4].kind = "RunStop"
  /\ Cardinality(PushesOf(hist[2].offset)) = 1
  /\ Len(sink[1].pushes) = 2
  /\ last = "commit"

\* ------------------------------------------------------------ C15
FromOtherPartitionStep ==
  /\ Len(hist') = Len(hist) + 1
  /\ file.some
  /\ msg'.val.partition # owner

\* C15: each partition has its own session: a message received from one
\* partition neither closes, replaces nor appends to the session that a
\* RunStart from another partition opened.
C15_SessionPerPartition ==
  [][FromOtherPartitionStep =>
       (file' = file /\ sink'[file.handle] = sink[file.handle])]_vars

\* ------------------------------------------------------------ C16
\* A payload without the trace identifier, off the control topic.
UnexpectedInput(m) ==
  m.payload.some /\ m.payload.ident # "trace" /\ m.topic # ControlTopic

UnexpectedOnlyCounted ==
  (Len(hist') = Len(hist) + 1 /\ UnexpectedInput(msg'.val)) =>
    /\ hist'[Len(hist')].kind = "Unexpected"
    /\ file' = file
    /\ sink' = sink
    /\ counters' = Increment(counters, "msgUnknown")
    /\ pc' = "commit"

\* C16: a payload without the trace identifier on a topic other than the
\* control topic, run-start and run-stop payloads included, takes the
\* Unexpected branch: the session and the sink stay as they were, the
\* unknown-message counter goes up by one and no failure counter moves.
C16_UnexpectedOnlyCounted == [][UnexpectedOnlyCounted]_vars

\* A run-stop payload on the trace topic has left the open session open.
C16_Witness ==
  /\ Processed("Unexpected")
  /\ msg.some
  /\ msg.val.payload.ident = "runstop"
  /\ msg.val.topic = TraceTopic
  /\ file.some
  /\ LiveHandles = {file.handle}
  /\ counters.msgUnknown = 1

\* ------------------------------------------------------------ C17
\* The kind each (topic, payload) is to be given, as a table.
KindTable(topic, payload) ==
  CASE ~payload.some -> "NoPayload"
    [] payload.some /\ payload.ident = "trace" /\ payload.wellformed -> "TraceFrame"
    [] payload.some /\ payload.ident = "trace" /\ ~payload.wellformed -> "DecodeFailed"
    [] payload.some /\ payload.ident = "runstart" /\ topic = ControlTopic -> "RunStart"
    [] payload.some /\ payload.ident = "runstop" /\ topic = ControlTopic -> "RunStop"
    [] payload.some /\ payload.ident = "other" /\ topic = ControlTopic -> "Unrecognized"
    [] payload.some /\ payload.ident # "trace" /\ topic # ControlTopic -> "Unexpected"

ClassifiedByTable ==
  Len(hist') = Len(hist) + 1 =>
    hist'[Len(hist')].kind = KindTable(msg'.val.topic, msg'.val.payload)

TraceTagFirst ==
  (Len(hist') = Len(hist) + 1 /\ msg'.val.payload.some
     /\ msg'.val.payload.ident = "trace") =>
    /\ file' = file
    /\ Len(sink') = Len(sink)
    /\ IF msg'.val.payload.wellformed
         THEN /\ counters'.msgTrace = counters.msgTrace + 1
              /\ file.some => Len(sink'[file.handle].pushes)
                                = Len(sink[file.handle].pushes) + 1
         ELSE counters' = Increment(counters, "failDecode")

\* C17: the identifier is looked at before the topic: a payload with the
\* trace identifier is handled as a trace frame (or a decode failure) on
\* whatever topic it arrives, the control topic included, and the branch a
\* message takes is a function of its topic and payload alone, the same with
\* and without a session open.
C17_TagBeforeTopic == [][ClassifiedByTable /\ TraceTagFirst]_vars

\* A trace frame that arrived on the control topic was pushed to the session.
C17_Witness ==
  /\ Processed("TraceFrame")
  /\ msg.some
  /\ msg.val.topic = ControlTopic
  /\ LastEntry.call = "push"
  /\ file.some
  /\ counters.msgTrace = 1

\* ------------------------------------------------------------ C18
NoPayloadChangesNothing ==
  (Len(hist') = Len(hist) + 1 /\ ~msg'.val.payload.some) =>
    /\ hist'[Len(hist')].kind = "NoPayload"
    /\ file' = file
    /\ sink' = sink
    /\ counters' = counters
    /\ pc' = "commit"

NoPayloadCommitted ==
  (pc = "commit" /\ Len(hist) > 0 /\ LastEntry.kind = "NoPayload") =>
    /\ commits' = [commits EXCEPT ![LastEntry.offset] = 1]
    /\ pc' = "recv"
    /\ file' = file
    /\ sink' = sink
    /\ counters' = counters

\* C18: a message without a payload changes neither the session, the sink
\* nor any counter; its offset is committed all the same and the loop goes
\* back to receive.
C18_NoPayloadOnlyCommitted ==
  [][NoPayloadChangesNothing /\ NoPayloadCommitted]_vars

\* A message without a payload was received inside a run and committed.
C18_Witness ==
  /\ last = "commit"
  /\ pc = "recv"
  /\ Len(hist) = 2
  /\ IsOpening(hist[1])
  /\ LastEntry.kind = "NoPayload"
  /\ commits[LastEntry.offset] = 1
  /\ file.some
  /\ counters = ZeroCounters

\* ------------------------------------------------------------ C19
RecvErrorChangesNothing ==
  last' = "recvError" =>
    /\ file' = file
    /\ sink' = sink
    /\ counters' = counters
    /\ commits' = commits
    /\ position' = position
    /\ hist' = hist
    /\ pc = "recv"
    /\ pc' = "recv"

\* C19: when recv returns an error the session is unchanged, no sink call is
\* made, no counter is incremented, no offset is committed, and the loop is
\* back at recv.
C19_RecvErrorChangesNothing == [][RecvErrorChangesNothing]_vars

\* recv has just failed inside an open run, after one pushed frame.
C19_Witness ==
  /\ last = "recvError"
  /\ pc = "recv"
  /\ file.some
  /\ Len(hist) = 2
  /\ hist[2].call = "push"
  /\ commits[0] = 1
  /\ commits[1] = 1
  /\ position = 2

\* ------------------------------------------------------------ C20
DecodedFrames == {i \in DOMAIN hist : hist[i].kind = "TraceFrame"}

\* C20: the trace messages-received counter counts the decoded trace frames,
\* one each, forwarded, dropped or failed in the append alike, and nothing
\* else: a trace payload that does not decode is not counted.
C20_TraceCounterCountsDecodedFrames ==
  counters.msgTrace = Cardinality(DecodedFrames)

\* A frame dropped, a frame whose append failed and a payload that did not
\* decode: two counted.
C20_Witness ==
  /\ Len(hist) = 4
  /\ hist[1].kind = "TraceFrame"
  /\ hist[1].call = "none"
  /\ IsOpening(hist[2])
  /\ PushFailed(hist[3])
  /\ hist[4].kind = "DecodeFailed"
  /\ counters.msgTrace = 2
  /\ counters.failDecode = 1

====
